---- MODULE Spec2Model ----
(***************************************************************************)
(* A model of the receipt processor: the Normalizer (sanitize_amount), the *)
(* Aggregator (parse_date, calculate_expenses, aggregate_by_category) and  *)
(* the directory pipeline (list_files, encode_file, extract_receipt_info,  *)
(* process_directory, main).                                               *)
(*                                                                         *)
(* Python values are records [t, n, e, s]: t is the type tag, (n, e) a     *)
(* decimal number n * 10^-e, s a text as a sequence of one-character       *)
(* strings. Floats are modelled as exact normalised decimals: binary       *)
(* rounding of float() and of += is not modelled.                          *)
(***************************************************************************)
EXTENDS Integers, Sequences, FiniteSets, TLC

VARIABLES
    pc,          \* position of the running program / which function was applied
    amount,      \* sanitize_amount: the argument
    data,        \* calculate_expenses / aggregate_by_category: the values of the mapping, in dict order
    start_date,  \* calculate_expenses: the start argument
    end_date,    \* calculate_expenses: the end argument
    ret,         \* the value the applied function returned (or the error it raised)
    listing,     \* os.listdir(dirpath): the directory entries, in platform order
    args,        \* main: the parsed command line
    pos,         \* list_files: how many directory entries the generator has consumed
    cur,         \* process_directory: the loop's locals (name, image_b64, data)
    results,     \* process_directory: the results dict
    order,       \* the insertion order of the keys of results
    log,         \* the calls made so far to encode_file and extract_receipt_info
    out          \* what main has printed, totalled and plotted

vars == <<pc, amount, data, start_date, end_date, ret, listing, args, pos, cur,
          results, order, log, out>>

-----------------------------------------------------------------------------
(* Bounds of the model *)

MaxLen == 4
MaxRecords == 2
MaxEntries == 2

-----------------------------------------------------------------------------
(* Python values *)

None == [t |-> "none", n |-> 0, e |-> 0, s |-> <<>>]
Str(s) == [t |-> "str", n |-> 0, e |-> 0, s |-> s]
PyInt(n) == [t |-> "int", n |-> n, e |-> 0, s |-> <<>>]
PyBool(b) == [t |-> "bool", n |-> IF b THEN 1 ELSE 0, e |-> 0, s |-> <<>>]
Raise(exc) == [t |-> "raise", n |-> 0, e |-> 0, s |-> <<exc>>]

RECURSIVE Pow10(_)
Pow10(k) == IF k = 0 THEN 1 ELSE 10 * Pow10(k - 1)

RECURSIVE TrailingZeros(_, _)
TrailingZeros(m, e) ==
    IF e > 0 /\ m % 10 = 0 THEN 1 + TrailingZeros(m \div 10, e - 1) ELSE 0

\* The float m * 10^-e, with the trailing zeros of the fraction dropped, so
\* that equal numbers are equal values (1.0 = 1.00).
Float(m, e) ==
    LET z == TrailingZeros(m, e)
    IN [t |-> "float", n |-> m \div Pow10(z), e |-> e - z, s |-> <<>>]

\* isinstance(v, (int, float)); bool is a subclass of int.
IsNumber(v) == v.t \in {"int", "float", "bool"}

\* a + b on numbers, as total += amount: the result is a float.
Add(a, b) ==
    LET E == IF a.e > b.e THEN a.e ELSE b.e
    IN Float(a.n * Pow10(E - a.e) + b.n * Pow10(E - b.e), E)

-----------------------------------------------------------------------------
(* Text *)

DigitChars == <<"0", "1", "2", "3", "4", "5", "6", "7", "8", "9">>
IsDigit(c) == \E i \in 1..10 : DigitChars[i] = c
DigitVal(c) == (CHOOSE i \in 1..10 : DigitChars[i] = c) - 1
IsSpace(c) == c = " "

RECURSIVE DigitsValue(_)
DigitsValue(s) ==
    IF s = <<>> THEN 0
    ELSE 10 * DigitsValue(SubSeq(s, 1, Len(s) - 1)) + DigitVal(s[Len(s)])

RECURSIVE Digits(_)
Digits(n) ==
    IF n < 10 THEN <<DigitChars[n + 1]>>
    ELSE Digits(n \div 10) \o <<DigitChars[(n % 10) + 1]>>

RECURSIVE ZeroPad(_, _)
ZeroPad(s, w) == IF Len(s) >= w THEN s ELSE ZeroPad(<<"0">> \o s, w)

\* s.replace(old, ""): every occurrence of the character is removed.
Replace(s, old) == SelectSeq(s, LAMBDA c : c # old)

RECURSIVE LStrip(_)
LStrip(s) == IF s # <<>> /\ IsSpace(s[1]) THEN LStrip(Tail(s)) ELSE s

RECURSIVE RStrip(_)
RStrip(s) ==
    IF s # <<>> /\ IsSpace(s[Len(s)]) THEN RStrip(SubSeq(s, 1, Len(s) - 1)) ELSE s

\* s.strip()
Strip(s) == LStrip(RStrip(s))

\* str(v). repr of a float is its shortest decimal form, with at least one
\* fractional digit (the values here stay in the range Python prints without
\* an exponent).
PyStr(v) ==
    CASE v.t = "str" -> v.s
      [] v.t = "none" -> <<"N", "o", "n", "e">>
      [] v.t = "bool" -> IF v.n = 1 THEN <<"T", "r", "u", "e">>
                         ELSE <<"F", "a", "l", "s", "e">>
      [] v.t = "int" -> (IF v.n < 0 THEN <<"-">> ELSE <<>>)
                        \o Digits(IF v.n < 0 THEN -v.n ELSE v.n)
      [] v.t = "float" ->
            LET a == IF v.n < 0 THEN -v.n ELSE v.n
                ip == a \div Pow10(v.e)
                fp == a % Pow10(v.e)
            IN (IF v.n < 0 THEN <<"-">> ELSE <<>>) \o Digits(ip) \o <<".">>
               \o (IF v.e = 0 THEN <<"0">> ELSE ZeroPad(Digits(fp), v.e))

\* The decimal literals float() accepts: an optional sign, digits with at most
\* one point, at least one digit. (The exponent, inf/nan and underscore forms
\* need characters outside the alphabet of the model.)
IsDecimalLiteral(s) ==
    LET body == IF s # <<>> /\ s[1] \in {"-", "+"} THEN Tail(s) ELSE s
        points == {i \in 1..Len(body) : body[i] = "."}
    IN /\ Cardinality(points) <= 1
       /\ \A i \in 1..Len(body) : IsDigit(body[i]) \/ body[i] = "."
       /\ \E i \in 1..Len(body) : IsDigit(body[i])

\* The number a decimal literal denotes.
LiteralValue(s) ==
    LET neg == s[1] = "-"
        body == IF s[1] \in {"-", "+"} THEN Tail(s) ELSE s
        digits == Replace(body, ".")
        points == {i \in 1..Len(body) : body[i] = "."}
        frac == IF points = {} THEN 0
                ELSE Len(body) - (CHOOSE i \in points : TRUE)
        m == DigitsValue(digits)
    IN Float(IF neg THEN -m ELSE m, frac)

\* float(s) on a text: surrounding whitespace is ignored; ValueError when
\* the rest is not a number.
PyFloat(s) ==
    LET x == Strip(s)
    IN IF IsDecimalLiteral(x) THEN LiteralValue(x) ELSE Raise("ValueError")

-----------------------------------------------------------------------------
(* main.py: sanitize_amount *)

\* Variant: without the except clause, the ValueError propagates.
sanitize_amount_propagates(a) ==
    IF a = None THEN None
    ELSE PyFloat(Strip(Replace(PyStr(a), "$")))

\* Variant: the "$" is not removed.
sanitize_amount_nostrip_dollar(a) ==
    IF a = None THEN None
    ELSE LET r == PyFloat(Strip(PyStr(a)))
         IN IF r.t = "raise" THEN None ELSE r

sanitize_amount(a) ==
    IF a = None THEN None
    ELSE LET cleaned == Strip(Replace(PyStr(a), "$"))
             r == PyFloat(cleaned)
         IN IF r = Raise("ValueError") THEN None ELSE r

-----------------------------------------------------------------------------
(* Receipt records: a dict is a function from the keys it has to values *)

Meals == <<"M", "e", "a", "l", "s">>
meals == <<"m", "e", "a", "l", "s">>
Other == <<"O", "t", "h", "e", "r">>
Vendor == <<"V">>

\* d.get(k, default)
Get(d, k, default) == IF k \in DOMAIN d THEN d[k] ELSE default

EmptyDict == [k \in {} |-> None]

-----------------------------------------------------------------------------
(* main.py: parse_date *)

RECURSIVE SplitDash(_)
\* The fields of a text between its "-" characters.
SplitDash(s) ==
    IF \A i \in 1..Len(s) : s[i] # "-" THEN <<s>>
    ELSE LET i == CHOOSE j \in 1..Len(s) :
                      s[j] = "-" /\ \A k \in 1..(j - 1) : s[k] # "-"
         IN <<SubSeq(s, 1, i - 1)>> \o SplitDash(SubSeq(s, i + 1, Len(s)))

AllDigits(f) == \A i \in 1..Len(f) : IsDigit(f[i])

\* %Y is \d\d\d\d
YearField(f) == Len(f) = 4 /\ AllDigits(f)
\* %m is 1[0-2]|0[1-9]|[1-9]
MonthField(f) == Len(f) \in {1, 2} /\ AllDigits(f) /\ DigitsValue(f) \in 1..12
\* %d is 3[01]|[12]\d|0[1-9]|[1-9]| [1-9]
DayField(f) ==
    \/ Len(f) \in {1, 2} /\ AllDigits(f) /\ DigitsValue(f) \in 1..31
    \/ Len(f) = 2 /\ f[1] = " " /\ IsDigit(f[2]) /\ DigitVal(f[2]) \in 1..9

IsLeap(y) == y % 4 = 0 /\ (y % 100 # 0 \/ y % 400 = 0)
DaysInMonth(y, m) ==
    IF m = 2 THEN (IF IsLeap(y) THEN 29 ELSE 28)
    ELSE IF m \in {4, 6, 9, 11} THEN 30 ELSE 31

\* datetime(y, m, d), ordered as the dates are.
DateTime(y, m, d) == [t |-> "datetime", n |-> y * 10000 + m * 100 + d, e |-> 0, s |-> <<>>]

\* datetime.strptime(text, "%Y-%m-%d"): ValueError when the text does not
\* match the format as a whole, or names no day of the calendar.
Strptime(text) ==
    LET f == SplitDash(text)
    IN IF Len(f) = 3 /\ YearField(f[1]) /\ MonthField(f[2]) /\ DayField(f[3])
       THEN LET y == DigitsValue(f[1])
                m == DigitsValue(f[2])
                d == DigitsValue(Replace(f[3], " "))
            IN IF y >= 1 /\ d <= DaysInMonth(y, m) THEN DateTime(y, m, d)
               ELSE Raise("ValueError")
       ELSE Raise("ValueError")

parse_date(date_str) ==
    LET r == IF date_str.t # "str" THEN Raise("TypeError")
             ELSE Strptime(date_str.s)
    IN IF r \in {Raise("ValueError"), Raise("TypeError")} THEN None ELSE r

-----------------------------------------------------------------------------
(* main.py: calculate_expenses *)

\* Variant: the range excludes its two ends.
RECURSIVE expenses_loop_exclusive(_, _, _, _, _)
expenses_loop_exclusive(d, start, end, i, total) ==
    IF i > Len(d) THEN total
    ELSE LET receipt == d[i]
             receipt_date == parse_date(Get(receipt, "date", None))
             amt == Get(receipt, "amount", None)
         IN IF receipt_date = None
            THEN expenses_loop_exclusive(d, start, end, i + 1, total)
            ELSE IF receipt_date.n <= start.n \/ receipt_date.n >= end.n
            THEN expenses_loop_exclusive(d, start, end, i + 1, total)
            ELSE IF amt = None \/ ~IsNumber(amt)
            THEN expenses_loop_exclusive(d, start, end, i + 1, total)
            ELSE expenses_loop_exclusive(d, start, end, i + 1, Add(total, amt))

\* The loop body applied to receipt i, with the running total.
RECURSIVE expenses_loop(_, _, _, _, _)
expenses_loop(d, start, end, i, total) ==
    IF i > Len(d) THEN total
    ELSE LET receipt == d[i]
             receipt_date == parse_date(Get(receipt, "date", None))
             amt == Get(receipt, "amount", None)
         IN IF receipt_date = None
            THEN expenses_loop(d, start, end, i + 1, total)
            ELSE IF receipt_date.n < start.n \/ receipt_date.n > end.n
            THEN expenses_loop(d, start, end, i + 1, total)
            ELSE IF amt = None \/ ~IsNumber(amt)
            THEN expenses_loop(d, start, end, i + 1, total)
            ELSE expenses_loop(d, start, end, i + 1, Add(total, amt))

calculate_expenses_exclusive(d, start_arg, end_arg) ==
    LET start == parse_date(start_arg)
        end == parse_date(end_arg)
    IN IF start = None \/ end = None THEN Float(0, 0)
       ELSE expenses_loop_exclusive(d, start, end, 1, Float(0, 0))

\* Variant: only start is tested for None; comparing with end = None raises.
calculate_expenses_start_only(d, start_arg, end_arg) ==
    LET start == parse_date(start_arg)
        end == parse_date(end_arg)
    IN IF start = None THEN Float(0, 0)
       ELSE IF end = None THEN Raise("TypeError")
       ELSE expenses_loop(d, start, end, 1, Float(0, 0))

\* Variant: the amount is added unchecked; adding None or a text raises.
calculate_expenses_no_amount_check(d, start_arg, end_arg) ==
    LET start == parse_date(start_arg)
        end == parse_date(end_arg)
        dated(i) == parse_date(Get(d[i], "date", None))
        added == {i \in 1..Len(d) :
                     /\ dated(i) # None
                     /\ start.n <= dated(i).n /\ dated(i).n <= end.n}
    IN IF start = None \/ end = None THEN Float(0, 0)
       ELSE IF \E i \in added : ~IsNumber(Get(d[i], "amount", None))
       THEN Raise("TypeError")
       ELSE expenses_loop(d, start, end, 1, Float(0, 0))

calculate_expenses(d, start_arg, end_arg) ==
    LET start == parse_date(start_arg)
        end == parse_date(end_arg)
    IN IF start = None \/ end = None THEN Float(0, 0)
       ELSE expenses_loop(d, start, end, 1, Float(0, 0))

-----------------------------------------------------------------------------
(* main.py: aggregate_by_category *)

\* totals[category] += amount, after totals[category] = 0.0 for a new key
Accumulate(totals, category, amt) ==
    LET before == IF category \in DOMAIN totals THEN totals[category]
                  ELSE Float(0, 0)
    IN [c \in DOMAIN totals \cup {category} |->
            IF c = category THEN Add(before, amt) ELSE totals[c]]

RECURSIVE category_loop(_, _, _)
category_loop(d, i, totals) ==
    IF i > Len(d) THEN totals
    ELSE LET receipt == d[i]
             category == Get(receipt, "category", Str(Other))
             amt == Get(receipt, "amount", None)
         IN IF amt = None \/ ~IsNumber(amt)
            THEN category_loop(d, i + 1, totals)
            ELSE category_loop(d, i + 1, Accumulate(totals, category, amt))

\* Variant: the key is created before the amount is checked.
RECURSIVE category_loop_key_first(_, _, _)
category_loop_key_first(d, i, totals) ==
    IF i > Len(d) THEN totals
    ELSE LET receipt == d[i]
             category == Get(receipt, "category", Str(Other))
             amt == Get(receipt, "amount", None)
             seen == Accumulate(totals, category, Float(0, 0))
         IN IF amt = None \/ ~IsNumber(amt)
            THEN category_loop_key_first(d, i + 1, seen)
            ELSE category_loop_key_first(d, i + 1, Accumulate(seen, category, amt))

aggregate_by_category_key_first(d) == category_loop_key_first(d, 1, EmptyDict)

aggregate_by_category(d) == category_loop(d, 1, EmptyDict)

-----------------------------------------------------------------------------
(* State shared by the specifications *)

NoRet == [op |-> "none", val |-> None, totals |-> EmptyDict]
Returned(op, val, totals) == [op |-> op, val |-> val, totals |-> totals]

NoArgs == [print |-> FALSE, expenses |-> <<>>, plot |-> FALSE]
NoCur == [name |-> "", image_b64 |-> "", data |-> [isdict |-> FALSE, value |-> EmptyDict]]
NoOut == [printed |-> <<>>, totalled |-> <<>>, plotted |-> <<>>]

PipelineIdle ==
    /\ listing = <<>>
    /\ args = NoArgs
    /\ pos = 0
    /\ cur = NoCur
    /\ results = EmptyDict
    /\ order = <<>>
    /\ log = <<>>
    /\ out = NoOut

PipelineVars == <<listing, args, pos, cur, results, order, log, out>>

-----------------------------------------------------------------------------
(* SpecSanitize: sanitize_amount applied to every small input *)

Alphabet == {"$", " ", "1", "0", ".", "-", "N"}
Texts == UNION {[1..k -> Alphabet] : k \in 0..MaxLen}

AmountInputs ==
    {None, PyInt(5), Float(1000, 2), Float(4383, 2), PyBool(TRUE)}
    \cup {Str(s) : s \in Texts}

InitSanitize ==
    /\ pc = "input"
    /\ amount \in AmountInputs
    /\ data = <<>>
    /\ start_date = None
    /\ end_date = None
    /\ ret = NoRet
    /\ PipelineIdle

ApplySanitize ==
    /\ pc = "input"
    /\ pc' = "sanitize_amount"
    /\ ret' = Returned("sanitize_amount", sanitize_amount(amount), EmptyDict)
    /\ UNCHANGED <<amount, data, start_date, end_date, PipelineVars>>

NextSanitize == ApplySanitize

SpecSanitize == InitSanitize /\ [][NextSanitize]_vars

-----------------------------------------------------------------------------
(* SpecAgg: calculate_expenses and aggregate_by_category applied to every  *)
(* small collection                                                        *)

Missing == [t |-> "missing", n |-> 0, e |-> 0, s |-> <<>>]

\* The receipt {"date": d, "amount": a, "vendor": ..., "category": c}, without
\* the keys whose value is Missing.
Receipt(d, a, c) ==
    LET full == [k \in {"date", "amount", "vendor", "category"} |->
                    CASE k = "date" -> d
                      [] k = "amount" -> a
                      [] k = "vendor" -> Str(Vendor)
                      [] k = "category" -> c]
    IN [k \in {x \in DOMAIN full : full[x] # Missing} |-> full[k]]

YMD(y, m, d) == Str(y \o <<"-">> \o m \o <<"-">> \o d)
Y2024 == <<"2", "0", "2", "4">>
Jan31 == YMD(Y2024, <<"0", "1">>, <<"3", "1">>)
Feb01 == YMD(Y2024, <<"0", "2">>, <<"0", "1">>)
Feb15Short == YMD(Y2024, <<"2">>, <<"1", "5">>)
Feb15 == YMD(Y2024, <<"0", "2">>, <<"1", "5">>)
Feb28 == YMD(Y2024, <<"0", "2">>, <<"2", "8">>)
Feb30 == YMD(Y2024, <<"0", "2">>, <<"3", "0">>)
Mar01 == YMD(Y2024, <<"0", "3">>, <<"0", "1">>)
Mar02 == YMD(Y2024, <<"0", "3">>, <<"0", "2">>)
Jan01 == YMD(Y2024, <<"0", "1">>, <<"0", "1">>)
NotADate == Str(<<"N", "/", "A">>)
DollarFive == Str(<<"$", "5">>)

RecordSet ==
    {Receipt(d, Float(10, 0), Str(Meals)) :
        d \in {Missing, None, Feb30, Jan31, Feb01, Feb15Short, Mar01, Mar02}}
    \cup {Receipt(Feb01, a, c) :
            a \in {Missing, None, DollarFive, Float(25, 1), Float(0, 0), PyInt(3)},
            c \in {Missing, Str(Meals), Str(meals), Str(Other)}}

Collections == UNION {[1..k -> RecordSet] : k \in 0..MaxRecords}

StartDates == {Feb01, NotADate}
EndDates == {Mar01, Jan01, Feb30}

InitAgg ==
    /\ pc = "input"
    /\ amount = None
    /\ data \in Collections
    /\ start_date \in StartDates
    /\ end_date \in EndDates
    /\ ret = NoRet
    /\ PipelineIdle

ApplyExpenses ==
    /\ pc \in {"raw", "input"}
    /\ pc' = "calculate_expenses"
    /\ ret' = Returned("calculate_expenses",
                       calculate_expenses(data, start_date, end_date), EmptyDict)
    /\ UNCHANGED <<amount, data, start_date, end_date, PipelineVars>>

ApplyCategory ==
    /\ pc \in {"raw", "input"}
    /\ pc' = "aggregate_by_category"
    /\ ret' = Returned("aggregate_by_category", None, aggregate_by_category(data))
    /\ UNCHANGED <<amount, data, start_date, end_date, PipelineVars>>

NextAgg == ApplyExpenses \/ ApplyCategory

SpecAgg == InitAgg /\ [][NextAgg]_vars

-----------------------------------------------------------------------------
(* SpecExample: the worked example, raw and then normalised as             *)
(* process_directory normalises each record                                *)

ExampleA == Receipt(Feb01, Float(10, 0), Str(Meals))
ExampleB == Receipt(Feb15, DollarFive, Str(Meals))
ExampleC == Receipt(Mar01, None, Str(Other))
ExampleRecords == {ExampleA, ExampleB, ExampleC}

ExampleCollections ==
    {c \in UNION {[1..k -> ExampleRecords] : k \in 0..Cardinality(ExampleRecords)} :
        \A i, j \in 1..Len(c) : i # j => c[i] # c[j]}

ExampleDates == {Jan31, Feb01, Feb28, Mar01}

InitExample ==
    /\ pc = "raw"
    /\ amount = None
    /\ data \in ExampleCollections
    /\ start_date \in ExampleDates
    /\ end_date \in ExampleDates
    /\ ret = NoRet
    /\ PipelineIdle

\* data["amount"] = sanitize_amount(data.get("amount")), for every record
Normalize ==
    /\ pc = "raw"
    /\ pc' = "input"
    /\ data' = [i \in 1..Len(data) |->
                  [k \in DOMAIN data[i] \cup {"amount"} |->
                      IF k = "amount"
                      THEN sanitize_amount(Get(data[i], "amount", None))
                      ELSE data[i][k]]]
    /\ UNCHANGED <<amount, start_date, end_date, ret, PipelineVars>>

NextExample == Normalize \/ ApplyExpenses \/ ApplyCategory

SpecExample == InitExample /\ [][NextExample]_vars

-----------------------------------------------------------------------------
(* Spec: main on a directory. The file system and the extraction service   *)
(* are the environment: the listing and the command line are drawn by      *)
(* Init, the outcome of each read and of each extraction call is drawn     *)
(* when the call is made.                                                  *)

Names == {"a.jpg", "b.jpg", "c"}

\* os.listdir: distinct names in any order; isfile says what os.path.isfile
\* answers for the entry.
Listings ==
    {l \in UNION {[1..k -> [name : Names, isfile : BOOLEAN]] : k \in 0..MaxEntries} :
        \A i, j \in 1..Len(l) : i # j => l[i].name # l[j].name}

ExpensesArgs == {<<>>, <<Feb01, Feb28>>, <<NotADate, Feb28>>}

Without(r, k) == [x \in DOMAIN r \ {k} |-> r[x]]

\* What the extraction call can come back with: the client raises, the
\* content is not JSON, the content is JSON but no object, or it is an
\* object with some of the four keys.
ApiError == [kind |-> "error", isdict |-> FALSE, value |-> EmptyDict]
NotJSON == [kind |-> "text", isdict |-> FALSE, value |-> EmptyDict]
JSONArray == [kind |-> "json", isdict |-> FALSE, value |-> EmptyDict]
JSONObject(d) == [kind |-> "json", isdict |-> TRUE, value |-> d]

Responses ==
    {ApiError, NotJSON, JSONArray}
    \cup {JSONObject(d) : d \in {ExampleA, ExampleB, ExampleC}}
    \cup {JSONObject(Without(ExampleB, k)) :
            k \in {"date", "amount", "vendor", "category"}}

NoData == [isdict |-> FALSE, value |-> EmptyDict]

Call(call, name, raised, response) ==
    [call |-> call, name |-> name, raised |-> raised, response |-> response]

Init ==
    /\ pc = "main"
    /\ amount = None
    /\ data = <<>>
    /\ start_date = None
    /\ end_date = None
    /\ ret = NoRet
    /\ args \in [dirpath : {"receipts", "nowhere"}, print : BOOLEAN,
                 expenses : ExpensesArgs, plot : BOOLEAN]
    /\ listing \in Listings
    /\ args.dirpath = "nowhere" => listing = <<>>
    /\ pos = 0
    /\ cur = [name |-> "", image_b64 |-> "", data |-> NoData]
    /\ results = EmptyDict
    /\ order = <<>>
    /\ log = <<>>
    /\ out = NoOut

FunctionVars == <<amount, data, start_date, end_date, ret>>

\* An exception nothing catches: the process ends with a traceback.
Abort(call, name, response) ==
    /\ pc' = "aborted"
    /\ log' = Append(log, Call(call, name, TRUE, response))

\* main: data = process_directory(args.dirpath); results = {}
process_directory ==
    /\ pc = "main"
    /\ pc' = "for"
    /\ results' = EmptyDict
    /\ order' = <<>>
    /\ UNCHANGED <<FunctionVars, listing, args, pos, cur, log, out>>

\* The entries after position p that list_files yields: the regular files.
\* Variant: every entry is yielded, directories too.
YieldsAfter_no_isfile(l, p) == {i \in (p + 1)..Len(l) : TRUE}

YieldsAfter(l, p) == {i \in (p + 1)..Len(l) : l[i].isfile}

Min(S) == CHOOSE x \in S : \A y \in S : x <= y

\* for name, path in io_mod.list_files(dirpath): the generator runs to its
\* next yield, or ends; os.listdir raises for a directory that is not there.
list_files ==
    /\ pc = "for"
    /\ IF args.dirpath = "nowhere"
       THEN /\ Abort("list_files", "", NoData)
            /\ UNCHANGED <<pos, cur>>
       ELSE IF YieldsAfter(listing, pos) = {}
       THEN /\ pc' = "return"
            /\ pos' = Len(listing)
            /\ UNCHANGED <<cur, log>>
       ELSE /\ pc' = "encode"
            /\ pos' = Min(YieldsAfter(listing, pos))
            /\ cur' = [name |-> listing[pos'].name, image_b64 |-> "", data |-> NoData]
            /\ UNCHANGED log
    /\ UNCHANGED <<FunctionVars, listing, args, results, order, out>>

\* Variant: a file that cannot be read is skipped and the loop goes on.
encode_file_skips_unreadable ==
    /\ pc = "encode"
    /\ \E readable \in BOOLEAN :
          IF readable
          THEN /\ pc' = "extract"
               /\ cur' = [cur EXCEPT !.image_b64 = cur.name]
               /\ log' = Append(log, Call("encode_file", cur.name, FALSE, NoData))
          ELSE /\ pc' = "for"
               /\ log' = Append(log, Call("encode_file", cur.name, TRUE, NoData))
               /\ UNCHANGED cur
    /\ UNCHANGED <<FunctionVars, listing, args, pos, results, order, out>>

\* image_b64 = io_mod.encode_file(path): the read raises or gives the text.
encode_file ==
    /\ pc = "encode"
    /\ \E readable \in BOOLEAN :
          IF readable
          THEN /\ pc' = "extract"
               /\ cur' = [cur EXCEPT !.image_b64 = cur.name]
               /\ log' = Append(log, Call("encode_file", cur.name, FALSE, NoData))
          ELSE /\ Abort("encode_file", cur.name, NoData)
               /\ UNCHANGED cur
    /\ UNCHANGED <<FunctionVars, listing, args, pos, results, order, out>>

\* data = gpt.extract_receipt_info(image_b64): one request; json.loads of
\* the content raises when it is not JSON.
extract_receipt_info ==
    /\ pc = "extract"
    /\ \E response \in Responses :
          IF response.kind \in {"error", "text"}
          THEN /\ Abort("extract_receipt_info", cur.image_b64, response)
               /\ UNCHANGED cur
          ELSE /\ pc' = "store"
               /\ cur' = [cur EXCEPT !.data = [isdict |-> response.isdict,
                                               value |-> response.value]]
               /\ log' = Append(log, Call("extract_receipt_info", cur.image_b64,
                                          FALSE, response))
    /\ UNCHANGED <<FunctionVars, listing, args, pos, results, order, out>>

\* data["amount"] = sanitize_amount(data.get("amount")); results[name] = data
Stored(d) ==
    [k \in DOMAIN d \cup {"amount"} |->
        IF k = "amount" THEN sanitize_amount(Get(d, "amount", None)) ELSE d[k]]

Assign(dict, k, v) == [x \in DOMAIN dict \cup {k} |-> IF x = k THEN v ELSE dict[x]]

\* Variant: a record without one of the four keys raises KeyError.
process_directory_store_requires_keys ==
    /\ pc = "store"
    /\ IF ~cur.data.isdict
          \/ DOMAIN cur.data.value # {"date", "amount", "vendor", "category"}
       THEN /\ Abort("store", cur.name, cur.data)
            /\ UNCHANGED <<results, order>>
       ELSE /\ pc' = "for"
            /\ results' = Assign(results, cur.name, Stored(cur.data.value))
            /\ order' = Append(order, cur.name)
            /\ UNCHANGED log
    /\ UNCHANGED <<FunctionVars, listing, args, pos, cur, out>>

\* The rest of the loop body; data.get raises AttributeError when data is
\* no dict.
process_directory_store ==
    /\ pc = "store"
    /\ IF ~cur.data.isdict
       THEN /\ Abort("store", cur.name, cur.data)
            /\ UNCHANGED <<results, order>>
       ELSE /\ pc' = "for"
            /\ results' = Assign(results, cur.name, Stored(cur.data.value))
            /\ order' = IF cur.name \in DOMAIN results THEN order
                        ELSE Append(order, cur.name)
            /\ UNCHANGED log
    /\ UNCHANGED <<FunctionVars, listing, args, pos, cur, out>>

\* return results
process_directory_return ==
    /\ pc = "return"
    /\ pc' = "print"
    /\ UNCHANGED <<FunctionVars, PipelineVars>>

\* data.values(), in dict order
Values(dict, keys) == [i \in 1..Len(keys) |-> dict[keys[i]]]

\* if args.print: print(json.dumps(data, indent=2))
main_print ==
    /\ pc = "print"
    /\ pc' = "expenses"
    /\ out' = IF args.print THEN [out EXCEPT !.printed = <<results>>] ELSE out
    /\ UNCHANGED <<FunctionVars, listing, args, pos, cur, results, order, log>>

\* if args.expenses: total = calculate_expenses(data, START, END); print it
main_expenses ==
    /\ pc = "expenses"
    /\ pc' = "plot"
    /\ out' = IF args.expenses # <<>>
              THEN [out EXCEPT !.totalled =
                       <<calculate_expenses(Values(results, order),
                                            args.expenses[1], args.expenses[2])>>]
              ELSE out
    /\ UNCHANGED <<FunctionVars, listing, args, pos, cur, results, order, log>>

\* if args.plot: plot_expenses_by_category(data): the pie chart of the
\* totals, or "No valid data to plot." when there are none
main_plot ==
    /\ pc = "plot"
    /\ pc' = "exit"
    /\ out' = IF args.plot
              THEN LET totals == aggregate_by_category(Values(results, order))
                   IN [out EXCEPT !.plotted =
                          <<[saved |-> totals # EmptyDict, totals |-> totals]>>]
              ELSE out
    /\ UNCHANGED <<FunctionVars, listing, args, pos, cur, results, order, log>>

Next ==
    \/ process_directory
    \/ list_files
    \/ encode_file
    \/ extract_receipt_info
    \/ process_directory_store
    \/ process_directory_return
    \/ main_print
    \/ main_expenses
    \/ main_plot

Spec == Init /\ [][Next]_vars

-----------------------------------------------------------------------------
(* Properties of sanitize_amount (SpecSanitize) *)

\* The text the spec's Normalizer parses: surrounding whitespace removed, one
\* leading "$" removed if present, surrounding whitespace removed again.
LeadingDollarStripped(s) ==
    LET x == Strip(s)
    IN Strip(IF x # <<>> /\ x[1] = "$" THEN Tail(x) ELSE x)

Sanitized == pc = "sanitize_amount"

\* C1 (as stated): an input that is None, or a text that is not a number after
\* one optional leading "$" and the surrounding whitespace are removed, gives
\* None.
C1_NonNumericGivesNone_Original ==
    (Sanitized /\ (amount = None
                   \/ (amount.t = "str"
                       /\ ~IsDecimalLiteral(LeadingDollarStripped(amount.s)))))
        => ret.val = None

\* C1 (amended): an input that is None, or whose text is not a number after
\* every "$" (wherever it stands) and then the surrounding whitespace are
\* removed, gives None, and no error is raised.
C1_NonNumericGivesNone ==
    (Sanitized /\ (amount = None
                   \/ ~IsDecimalLiteral(Strip(Replace(PyStr(amount), "$")))))
        => ret.val = None

C1_Witness ==
    /\ Sanitized
    /\ amount = Str(<<"$", "N">>)
    /\ ret.val = None

\* C2: a numeric text, optionally preceded by one "$" and surrounded by
\* whitespace, gives exactly the number the text denotes.
C2_NumericGivesValue ==
    (Sanitized /\ amount.t = "str"
               /\ IsDecimalLiteral(LeadingDollarStripped(amount.s)))
        => ret.val = LiteralValue(LeadingDollarStripped(amount.s))

C2_Witness ==
    /\ Sanitized
    /\ amount = Str(<<" ", "$", "1", " ">>)
    /\ ret.val = Float(1, 0)

-----------------------------------------------------------------------------
(* Properties of calculate_expenses and aggregate_by_category (SpecAgg) *)

\* A record's amount is a number (absent and None are not).
HasNumericAmount(r) == "amount" \in DOMAIN r /\ r["amount"].t \in {"int", "float"}

RECURSIVE SumAmounts(_)
\* The sum of the amounts of a sequence of records with numeric amounts.
SumAmounts(rs) ==
    IF rs = <<>> THEN Float(0, 0)
    ELSE Add(rs[Len(rs)]["amount"], SumAmounts(SubSeq(rs, 1, Len(rs) - 1)))

RecordDate(r) == IF "date" \in DOMAIN r THEN parse_date(r["date"]) ELSE None

InRange(r) ==
    /\ RecordDate(r) # None
    /\ parse_date(start_date).n <= RecordDate(r).n
    /\ RecordDate(r).n <= parse_date(end_date).n

ExpensesDone == pc = "calculate_expenses"
CategoryDone == pc = "aggregate_by_category"
RangeParses == parse_date(start_date) # None /\ parse_date(end_date) # None

\* C3: the range total is the sum of the amounts of exactly the records whose
\* date parses and lies in [start, end], both ends included, and whose amount
\* is numeric; it is zero when no record qualifies.
C3_RangeTotal ==
    (ExpensesDone /\ RangeParses)
        => ret.val = SumAmounts(SelectSeq(data,
                         LAMBDA r : InRange(r) /\ HasNumericAmount(r)))

C3_Witness ==
    /\ ExpensesDone /\ RangeParses
    /\ Len(data) = 2
    /\ RecordDate(data[1]) = parse_date(end_date)
    /\ HasNumericAmount(data[1])
    /\ RecordDate(data[2]) # None
    /\ RecordDate(data[2]).n < parse_date(start_date).n
    /\ HasNumericAmount(data[2])
    /\ ret.val = Float(10, 0)

\* C4: the range total is zero, and nothing is raised, when start or end does
\* not parse, whatever the records are.
C4_BadRangeGivesZero ==
    (ExpensesDone /\ ~RangeParses) => ret.val = Float(0, 0)

C4_Witness ==
    /\ ExpensesDone
    /\ parse_date(start_date) # None
    /\ end_date = Feb30
    /\ \E i \in 1..Len(data) :
          /\ RecordDate(data[i]) = parse_date(start_date)
          /\ HasNumericAmount(data[i])
    /\ ret.val = Float(0, 0)

\* The category a record is counted under: its category field as it is, and
\* "Other" only when the record has no category key.
CategoryOf(r) == IF "category" \in DOMAIN r THEN r["category"] ELSE Str(Other)

\* C5: the category totals have exactly the categories of the records with a
\* numeric amount as keys, each with the sum of those records' amounts; the
\* category is taken verbatim and is "Other" only for a missing key.
C5_CategoryTotals ==
    CategoryDone =>
        LET counted == SelectSeq(data, HasNumericAmount)
            cats == {CategoryOf(counted[i]) : i \in 1..Len(counted)}
        IN /\ DOMAIN ret.totals = cats
           /\ \A c \in cats :
                 ret.totals[c] =
                     SumAmounts(SelectSeq(counted, LAMBDA r : CategoryOf(r) = c))

C5_Witness ==
    /\ CategoryDone
    /\ Len(data) = 2
    /\ "category" \notin DOMAIN data[1] /\ HasNumericAmount(data[1])
    /\ CategoryOf(data[2]) = Str(meals) /\ ~HasNumericAmount(data[2])
    /\ DOMAIN ret.totals = {Str(Other)}

\* C6: records whose amount is absent, None or not a number change neither
\* result: each equals the result on the collection without those records,
\* and neither computation raises.
C6_NonNumericIgnored ==
    LET kept == SelectSeq(data, HasNumericAmount)
    IN /\ ExpensesDone =>
            ret.val = calculate_expenses(kept, start_date, end_date)
       /\ ExpensesDone => ret.val.t = "float"
       /\ CategoryDone => ret.totals = aggregate_by_category(kept)

C6_Witness ==
    /\ CategoryDone
    /\ Len(data) = 2
    /\ Get(data[1], "amount", None) = DollarFive
    /\ CategoryOf(data[1]) = Str(meals)
    /\ HasNumericAmount(data[2])
    /\ CategoryOf(data[2]) = Str(Meals)
    /\ DOMAIN ret.totals = {Str(Meals)}

-----------------------------------------------------------------------------
(* The worked example (SpecExample) *)

\* The example collection after normalisation: b's "$5" has become 5.0.
ExampleNormalized ==
    /\ Len(data) = 3
    /\ {data[i] : i \in 1..3} =
           {Receipt(Feb01, Float(10, 0), Str(Meals)),
            Receipt(Feb15, Float(5, 0), Str(Meals)),
            Receipt(Mar01, None, Str(Other))}

ExampleRange == start_date = Feb01 /\ end_date = Feb28

\* C7 (as stated): on the normalised example the range total for
\* 2024-02-01 to 2024-02-28 is 10.0.
C7_ExampleRangeTotal_Original ==
    (ExpensesDone /\ ExampleNormalized /\ ExampleRange) => ret.val = Float(10, 0)

\* C7 (amended): on the normalised example, whose category totals are
\* {"Meals": 15.0}, the range total for 2024-02-01 to 2024-02-28 is 15.0:
\* a (10.0, 2024-02-01) and b (5.0, 2024-02-15) both lie in the range.
C7_ExampleRangeTotal ==
    /\ (ExpensesDone /\ ExampleNormalized /\ ExampleRange)
          => ret.val = Float(15, 0)
    /\ (CategoryDone /\ ExampleNormalized)
          => ret.totals = (Str(Meals) :> Float(15, 0))

C7_Witness ==
    /\ ExpensesDone /\ ExampleNormalized /\ ExampleRange
    /\ ret.val = Float(15, 0)

-----------------------------------------------------------------------------
(* Properties of the directory run (Spec) *)

\* process_directory has returned its collection to main.
CollectionProduced == pc \in {"print", "expenses", "plot", "exit"}

ExtractionCalls == {i \in 1..Len(log) : log[i].call = "extract_receipt_info"}

AllKeys == {"date", "amount", "vendor", "category"}

\* The response is not JSON, or is a JSON object without one of the four keys.
Malformed(response) ==
    \/ response.kind = "text"
    \/ response.kind = "json" /\ response.isdict /\ DOMAIN response.value # AllKeys

\* C8 (as stated): after a malformed response (not JSON, or an object missing
\* one of date, amount, vendor, category) no collection is produced.
C8_MalformedAborts_Original ==
    (\E i \in ExtractionCalls : Malformed(log[i].response)) => ~CollectionProduced

\* C8 (amended): a response that is not JSON, or is JSON but not an object,
\* is not recovered: the run aborts and produces no collection. A JSON object
\* is accepted whatever keys it has: it is stored under the file's name with
\* its amount normalised (None when the key is missing) and its other keys as
\* they came, a missing key staying missing.
C8_MalformedAborts ==
    \A i \in ExtractionCalls :
        LET r == log[i].response
            name == log[i].name
        IN /\ (r.kind = "text" \/ (r.kind = "json" /\ ~r.isdict))
                => /\ ~CollectionProduced
                   /\ out = NoOut
                   /\ name \notin DOMAIN results
                   /\ pc \in {"store", "aborted"}
           /\ (r.kind = "json" /\ r.isdict)
                => \/ pc = "store" /\ i = Len(log)
                   \/ /\ name \in DOMAIN results
                      /\ DOMAIN results[name] = DOMAIN r.value \cup {"amount"}
                      /\ \A k \in DOMAIN r.value \ {"amount"} :
                            results[name][k] = r.value[k]
                      /\ "amount" \notin DOMAIN r.value
                            => results[name]["amount"] = None

C8_Witness ==
    /\ pc = "aborted"
    /\ results # EmptyDict
    /\ log[Len(log)].call = "extract_receipt_info"
    /\ log[Len(log)].response = NotJSON
    /\ "date" \notin DOMAIN results[order[1]]

\* The files list_files yields, in order.
YieldedNames == 
    LET files == SelectSeq(listing, LAMBDA en : en.isfile)
    IN [i \in 1..Len(files) |-> files[i].name]

\* encode_file(f1), extract_receipt_info(f1), encode_file(f2), ...
ExpectedCalls ==
    [i \in 1..(2 * Len(YieldedNames)) |->
        IF i % 2 = 1 THEN <<"encode_file", YieldedNames[(i + 1) \div 2]>>
        ELSE <<"extract_receipt_info", YieldedNames[i \div 2]>>]

CallsMade ==
    LET calls == SelectSeq(log, LAMBDA c :
                     c.call \in {"encode_file", "extract_receipt_info"})
    IN [i \in 1..Len(calls) |-> <<calls[i].call, calls[i].name>>]

IsPrefix(a, b) == Len(a) <= Len(b) /\ a = SubSeq(b, 1, Len(a))

\* C9: the files are encoded and sent one at a time, in the order list_files
\* yields them, one extraction call per file; a call that raises is the last
\* thing the run does: no later file is encoded or sent, and nothing is
\* returned, printed, totalled or plotted.
C9_SequentialNoPartial ==
    /\ IsPrefix(CallsMade, ExpectedCalls)
    /\ \A i \in 1..Len(log) : log[i].raised =>
          /\ i = Len(log)
          /\ pc = "aborted"
          /\ ~CollectionProduced
          /\ out = NoOut

C9_Witness ==
    /\ pc = "aborted"
    /\ Len(log) = 2
    /\ log[2].call = "extract_receipt_info" /\ log[2].raised
    /\ YieldsAfter(listing, pos) # {}
    /\ args.print /\ args.plot /\ args.expenses # <<>>

C10_KeysAreFiles ==
    /\ \A k \in DOMAIN results :
          /\ Cardinality({i \in 1..Len(listing) : listing[i].name = k}) = 1
          /\ \E i \in 1..pos : listing[i].name = k /\ listing[i].isfile
    /\ CollectionProduced =>
          DOMAIN results = {listing[i].name : i \in {j \in 1..Len(listing) : listing[j].isfile}}

\* C10: every key of the collection is the name of exactly one regular file
\* that list_files has yielded; after a normal return the keys are exactly
\* the yielded names; and once returned the collection is never changed by
\* printing, totalling or plotting.
C10_CollectionInvariant ==
    /\ []C10_KeysAreFiles
    /\ [][CollectionProduced => (results' = results /\ order' = order)]_vars

C10_Witness ==
    /\ pc = "exit"
    /\ Len(listing) = 2
    /\ ~listing[1].isfile
    /\ DOMAIN results = {listing[2].name}
    /\ results[listing[2].name]["amount"] = None
    /\ out.totalled # <<>> /\ out.plotted # <<>>

====
